---- MODULE Spec2Model ----
(***************************************************************************)
(* Knowledge Graph Explorer (src/knowledge_graph_explorer.py).             *)
(*                                                                         *)
(* The model follows the pipeline of the program: a Cypher script is       *)
(* scanned by parse_cypher_file, build_networkx_graph turns the parsed     *)
(* model into a directed property graph, create_pyvis_graph selects a      *)
(* subgraph of it and display_node_details / create_path_view /            *)
(* create_concept_view inspect one entity.                                 *)
(*                                                                         *)
(* A script is a sequence of statements.  Each regular expression of the   *)
(* parser is one full scan of the text, so a pass sees the statements of   *)
(* its own shape in text order; a statement record holds the groups the    *)
(* expression captures, still as text (digit strings are sequences of      *)
(* digits, the keyCompetencies text is a sequence of characters).          *)
(***************************************************************************)
EXTENDS Integers, Sequences, FiniteSets, TLC

VARIABLES script, graph_data, G, pc, query, result, session_state, tmp_files, runs

vars == <<script, graph_data, G, pc, query, result, session_state, tmp_files, runs>>

\* st.session_state, the temporary files and the runs of main so far
sessionVars == <<session_state, tmp_files, runs>>

(***************************************************************************)
(* Bounds of the model.                                                    *)
(***************************************************************************)
MaxLinks == 3

MaxBuildLinks == 3

MaxHop == 2

MaxSeeds == 2
MaxRuns == 3

(***************************************************************************)
(* Python helpers.                                                         *)
(***************************************************************************)
EmptyDict == <<>>

\* int(text) of a string of decimal digits
RECURSIVE int(_)
int(digits) ==
    IF digits = <<>> THEN 0
    ELSE 10 * int(SubSeq(digits, 1, Len(digits) - 1)) + digits[Len(digits)]

\* text.split(";"): the pieces between the separators, empty pieces kept
RECURSIVE split(_, _)
split(text, piece) ==
    IF text = <<>> THEN <<piece>>
    ELSE IF Head(text) = ";" THEN <<piece>> \o split(Tail(text), <<>>)
    ELSE split(Tail(text), Append(piece, Head(text)))

\* key_competencies.split(";") if key_competencies else []
splitCompetencies(text) == IF text = <<>> THEN <<>> ELSE split(text, <<>>)

InList(x, list) == \E i \in 1..Len(list) : list[i] = x

\* variant: an item goes before the items of equal key
RECURSIVE insertSorted_Unstable(_, _)
insertSorted_Unstable(sortedPairs, x) ==
    IF sortedPairs = <<>> THEN <<x>>
    ELSE LET last == sortedPairs[Len(sortedPairs)]
         IN  IF last[2] < x[2] THEN Append(sortedPairs, x)
             ELSE Append(insertSorted_Unstable(SubSeq(sortedPairs, 1, Len(sortedPairs) - 1), x),
                         last)

\* sorted(pairs, key=lambda x: x[1]): stable, ascending on the second item
RECURSIVE insertSorted(_, _)
insertSorted(sortedPairs, x) ==
    IF sortedPairs = <<>> THEN <<x>>
    ELSE LET last == sortedPairs[Len(sortedPairs)]
         IN  IF last[2] <= x[2] THEN Append(sortedPairs, x)
             ELSE Append(insertSorted(SubSeq(sortedPairs, 1, Len(sortedPairs) - 1), x), last)

\* variant: the pairs are left in the order of the statements
sorted_Unsorted(pairs) == pairs

RECURSIVE sorted(_)
sorted(pairs) ==
    IF pairs = <<>> THEN <<>>
    ELSE insertSorted(sorted(SubSeq(pairs, 1, Len(pairs) - 1)), pairs[Len(pairs)])

firsts(pairs) == [i \in 1..Len(pairs) |-> pairs[i][1]]

\* variant: the patterns that are no creation patterns are matched only in
\* the text after the last creation statement
finditer_AfterCreations(shape, cypher_script) ==
    LET creating == {"CreateKnowledgeNode", "CreateConcept", "CreateLearningPath"}
        at == {i \in 1..Len(cypher_script) : cypher_script[i].shape \in creating}
        from == IF shape \in creating \/ at = {} THEN 1
                ELSE 1 + CHOOSE i \in at : \A j \in at : j <= i
    IN  SelectSeq(SubSeq(cypher_script, from, Len(cypher_script)), LAMBDA s : s.shape = shape)

\* re.finditer(pattern, cypher_script): the statements of one shape, in text order
finditer(shape, cypher_script) == SelectSeq(cypher_script, LAMBDA s : s.shape = shape)

(***************************************************************************)
(* parse_cypher_file                                                       *)
(***************************************************************************)
RECURSIVE extractKnowledgeNodes(_, _)
extractKnowledgeNodes(matches, knowledge_nodes) ==
    IF matches = <<>> THEN knowledge_nodes
    ELSE LET m == Head(matches)
             rec == [id |-> m.id, title |-> m.title, description |-> m.description,
                     difficulty |-> m.difficulty, estimatedMinutes |-> int(m.minutes),
                     source_lesson |-> m.source_lesson, source_title |-> m.source_title]
         IN  extractKnowledgeNodes(Tail(matches), (m.id :> rec) @@ knowledge_nodes)

RECURSIVE extractConcepts(_, _)
extractConcepts(matches, concepts) ==
    IF matches = <<>> THEN concepts
    ELSE LET m == Head(matches)
             rec == [id |-> m.id, name |-> m.name, description |-> m.description,
                     estimatedMinutes |-> int(m.minutes), nodes |-> <<>>]
         IN  extractConcepts(Tail(matches), (m.id :> rec) @@ concepts)

RECURSIVE extractLearningPaths(_, _)
extractLearningPaths(matches, learning_paths) ==
    IF matches = <<>> THEN learning_paths
    ELSE LET m == Head(matches)
             rec == [id |-> m.id, name |-> m.name, description |-> m.description,
                     targetAudience |-> m.targetAudience,
                     keyCompetencies |-> splitCompetencies(m.keyCompetencies),
                     estimatedMinutes |-> int(m.minutes), concepts |-> <<>>]
         IN  extractLearningPaths(Tail(matches), (m.id :> rec) @@ learning_paths)

nodeRelationships(matches) ==
    [i \in 1..Len(matches) |->
        [source |-> matches[i].source, target |-> matches[i].target,
         type |-> matches[i].rel_type, strength |-> int(matches[i].strength),
         justification |-> matches[i].justification]]

prereqRelationships(matches) ==
    [i \in 1..Len(matches) |->
        [source |-> matches[i].source, target |-> matches[i].target,
         type |-> "PREREQUISITE_FOR", strength |-> 4,
         justification |-> "Prerequisite concept"]]

\* The loop over the CONTAINS (INCLUDES) matches: acc.aux is concept_nodes
\* (path_concepts), acc.owners is concepts (learning_paths), members is the
\* key of the owner's member list ("nodes" or "concepts").
RECURSIVE collectMembers(_, _, _)
collectMembers(matches, acc, members) ==
    IF matches = <<>> THEN acc
    ELSE LET m == Head(matches)
             old == IF m.owner \in DOMAIN acc.aux THEN acc.aux[m.owner] ELSE <<>>
             aux == (m.owner :> Append(old, <<m.member, int(m.sequence)>>)) @@ acc.aux
             owners ==
                 IF m.owner \in DOMAIN acc.owners
                    /\ ~InList(m.member, acc.owners[m.owner][members])
                 THEN [acc.owners EXCEPT ![m.owner] =
                          (members :> Append(acc.owners[m.owner][members], m.member))
                          @@ acc.owners[m.owner]]
                 ELSE acc.owners
         IN  collectMembers(Tail(matches), [aux |-> aux, owners |-> owners], members)

\* The loop that sorts each owner's members by sequence and stores the ids
\* under key (sequence or conceptSequence) when the owner was created.
sortMembers(aux, owners, key) ==
    [id \in DOMAIN owners |->
        IF id \in DOMAIN aux
        THEN (key :> firsts(sorted(aux[id]))) @@ owners[id]
        ELSE owners[id]]

parse_cypher_file(cypher_script) ==
    LET knowledge_nodes ==
            extractKnowledgeNodes(finditer("CreateKnowledgeNode", cypher_script), EmptyDict)
        concepts0 == extractConcepts(finditer("CreateConcept", cypher_script), EmptyDict)
        paths0 == extractLearningPaths(finditer("CreateLearningPath", cypher_script), EmptyDict)
        rels0 == nodeRelationships(finditer("NodeRelationship", cypher_script))
        cn == collectMembers(finditer("Contains", cypher_script),
                             [aux |-> EmptyDict, owners |-> concepts0], "nodes")
        concepts == sortMembers(cn.aux, cn.owners, "sequence")
        pcs == collectMembers(finditer("Includes", cypher_script),
                              [aux |-> EmptyDict, owners |-> paths0], "concepts")
        learning_paths == sortMembers(pcs.aux, pcs.owners, "conceptSequence")
        relationships == rels0 \o prereqRelationships(finditer("Prerequisite", cypher_script))
    IN  [knowledge_nodes |-> knowledge_nodes, concepts |-> concepts,
         learning_paths |-> learning_paths, relationships |-> relationships]

(***************************************************************************)
(* The directed property graph (networkx.DiGraph): a dictionary of node    *)
(* attribute dictionaries and one attribute dictionary per ordered pair    *)
(* of adjacent nodes.                                                      *)
(***************************************************************************)
EmptyGraph == [nodes |-> EmptyDict, edges |-> {}]

has_node(g, n) == n \in DOMAIN g.nodes

has_edge(g, u, v) == \E e \in g.edges : e.u = u /\ e.v = v

edge_data(g, u, v) == (CHOOSE e \in g.edges : e.u = u /\ e.v = v).data

successors(g, n) == {e.v : e \in {d \in g.edges : d.u = n}}

predecessors(g, n) == {e.u : e \in {d \in g.edges : d.v = n}}

\* G.add_node(n, **attrs): creates the node or updates its attributes
add_node(g, n, attrs) ==
    [g EXCEPT !.nodes =
        (n :> (attrs @@ (IF has_node(g, n) THEN g.nodes[n] ELSE EmptyDict))) @@ g.nodes]

\* G.add_edge(u, v, **attrs): creates missing endpoints, then creates the
\* edge or updates the attributes of the existing edge u -> v
add_edge(g, u, v, attrs) ==
    LET g1 == IF has_node(g, u) THEN g ELSE add_node(g, u, EmptyDict)
        g2 == IF has_node(g1, v) THEN g1 ELSE add_node(g1, v, EmptyDict)
        data == attrs @@ (IF has_edge(g, u, v) THEN edge_data(g, u, v) ELSE EmptyDict)
    IN  [g2 EXCEPT !.edges =
            {e \in g.edges : ~(e.u = u /\ e.v = v)} \cup {[u |-> u, v |-> v, data |-> data]}]

(***************************************************************************)
(* build_networkx_graph                                                    *)
(***************************************************************************)
\* one of the three loops that add the entities of a dictionary as nodes
RECURSIVE addEntities(_, _, _, _, _)
addEntities(g, ids, entities, labelKey, type) ==
    IF ids = {} THEN g
    ELSE LET id == CHOOSE x \in ids : TRUE
             attrs == ("type" :> type) @@ ("label" :> entities[id][labelKey]) @@ entities[id]
         IN  addEntities(add_node(g, id, attrs), ids \ {id}, entities, labelKey, type)

\* variant: the edge is added without the test of the endpoints
RECURSIVE addRelationships_Unguarded(_, _)
addRelationships_Unguarded(g, relationships) ==
    IF relationships = <<>> THEN g
    ELSE LET rel == Head(relationships)
             g1 == add_edge(g, rel.source, rel.target,
                            [relation |-> rel.type, strength |-> rel.strength,
                             justification |-> rel.justification])
         IN  addRelationships_Unguarded(g1, Tail(relationships))

\* the loop over graph_data["relationships"]
RECURSIVE addRelationships(_, _)
addRelationships(g, relationships) ==
    IF relationships = <<>> THEN g
    ELSE LET rel == Head(relationships)
             g1 == IF has_node(g, rel.source) /\ has_node(g, rel.target)
                   THEN add_edge(g, rel.source, rel.target,
                                 [relation |-> rel.type, strength |-> rel.strength,
                                  justification |-> rel.justification])
                   ELSE g
         IN  addRelationships(g1, Tail(relationships))

\* variant: the edge is added without the test `in G` of the member
RECURSIVE addSequenceEdges_Unguarded(_, _, _, _, _)
addSequenceEdges_Unguarded(g, owner, sequence, i, relation) ==
    IF i > Len(sequence) THEN g
    ELSE addSequenceEdges_Unguarded(add_edge(g, owner, sequence[i],
                                             [relation |-> relation, sequence |-> i]),
                                    owner, sequence, i + 1, relation)

\* for i, member in enumerate(sequence) from index i on
RECURSIVE addSequenceEdges(_, _, _, _, _)
addSequenceEdges(g, owner, sequence, i, relation) ==
    IF i > Len(sequence) THEN g
    ELSE LET g1 == IF has_node(g, sequence[i])
                   THEN add_edge(g, owner, sequence[i],
                                 [relation |-> relation, sequence |-> i])
                   ELSE g
         IN  addSequenceEdges(g1, owner, sequence, i + 1, relation)

\* the loops that add the CONTAINS and the INCLUDES edges
RECURSIVE addStructural(_, _, _, _, _)
addStructural(g, ids, entities, key, relation) ==
    IF ids = {} THEN g
    ELSE LET id == CHOOSE x \in ids : TRUE
             g1 == IF key \in DOMAIN entities[id]
                   THEN addSequenceEdges(g, id, entities[id][key], 1, relation)
                   ELSE g
         IN  addStructural(g1, ids \ {id}, entities, key, relation)

\* variant: attrs is the dictionary of the parsed model itself, not a copy
entitiesAfterBuild_Aliased(entities, labelKey, type) ==
    [id \in DOMAIN entities |->
        ("type" :> type) @@ ("label" :> entities[id][labelKey]) @@ entities[id]]

\* one dictionary of the parsed model after the loop that adds its entities:
\* attrs = dict(node_data) is a copy, the two writes go to the copy
entitiesAfterBuild(entities, labelKey, type) == entities

\* the parsed model as the call of build_networkx_graph leaves it
modelAfterBuild(data) ==
    [knowledge_nodes |-> entitiesAfterBuild(data.knowledge_nodes, "title", "KnowledgeNode"),
     concepts |-> entitiesAfterBuild(data.concepts, "name", "Concept"),
     learning_paths |-> entitiesAfterBuild(data.learning_paths, "name", "LearningPath"),
     relationships |-> data.relationships]

build_networkx_graph(data) ==
    LET g1 == addEntities(EmptyGraph, DOMAIN data.knowledge_nodes, data.knowledge_nodes,
                          "title", "KnowledgeNode")
        g2 == addEntities(g1, DOMAIN data.concepts, data.concepts, "name", "Concept")
        g3 == addEntities(g2, DOMAIN data.learning_paths, data.learning_paths,
                          "name", "LearningPath")
        g4 == addRelationships(g3, data.relationships)
        g5 == addStructural(g4, DOMAIN data.concepts, data.concepts, "sequence", "CONTAINS")
    IN  addStructural(g5, DOMAIN data.learning_paths, data.learning_paths,
                      "conceptSequence", "INCLUDES")

(***************************************************************************)
(* create_pyvis_graph: the filtering block.  An absent (None) or empty     *)
(* filter is the empty set; both are false in the conditions of the code.  *)
(***************************************************************************)
None == "None"

\* d.get(key, default)
get(d, key, default) == IF key \in DOMAIN d THEN d[key] ELSE default

adjacent(g, n, direction) ==
    IF direction = "successors" THEN successors(g, n) ELSE predecessors(g, n)

\* for i in range(rounds): for n in list(neighbors) + [node_id]:
\*     if n in G: neighbors.update(G.successors(n))      (or G.predecessors(n))
RECURSIVE expandRounds(_, _, _, _, _)
expandRounds(g, node_id, neighbors, rounds, direction) ==
    IF rounds <= 0 THEN neighbors
    ELSE LET sources == {n \in neighbors \cup {node_id} : has_node(g, n)}
             grown == neighbors \cup UNION {adjacent(g, n, direction) : n \in sources}
         IN  expandRounds(g, node_id, grown, rounds - 1, direction)

\* variant: the predecessor loop starts from the seed alone
seedNeighbors_FromSeedOnly(g, node_id, neighborhood_degree) ==
    expandRounds(g, node_id, {}, neighborhood_degree, "successors")
    \cup expandRounds(g, node_id, {}, neighborhood_degree, "predecessors")

\* the set neighbors of one seed after the successor loop and the predecessor loop
seedNeighbors(g, node_id, neighborhood_degree) ==
    expandRounds(g, node_id,
                 expandRounds(g, node_id, {}, neighborhood_degree, "successors"),
                 neighborhood_degree, "predecessors")

\* variant: the seeds are taken without the test `node_id in G`
seedNodes_Unchecked(g, filter_node_ids) == filter_node_ids

\* the nodes added for filter_node_ids
seedNodes(g, filter_node_ids) == {n \in filter_node_ids : has_node(g, n)}

\* variant: the neighbours replace the seeds instead of being added to them
expandSeeds_NeighboursOnly(g, filter_node_ids, neighborhood_degree) ==
    LET seeds == seedNodes(g, filter_node_ids)
    IN  IF neighborhood_degree > 0
        THEN UNION {seedNeighbors(g, s, neighborhood_degree) : s \in seeds}
        ELSE seeds

expandSeeds(g, filter_node_ids, neighborhood_degree) ==
    LET seeds == seedNodes(g, filter_node_ids)
    IN  IF neighborhood_degree > 0
        THEN seeds \cup UNION {seedNeighbors(g, s, neighborhood_degree) : s \in seeds}
        ELSE seeds

\* the nodes added for filter_types
typedNodes(g, filter_types) ==
    {n \in DOMAIN g.nodes : get(g.nodes[n], "type", None) \in filter_types}

\* variant: the type filter narrows the seed expansion instead of adding to it
nodesToInclude_TypeNarrows(g, filter_types, filter_node_ids, neighborhood_degree) ==
    LET fromIds == IF filter_node_ids # {}
                   THEN expandSeeds(g, filter_node_ids, neighborhood_degree) ELSE DOMAIN g.nodes
        fromTypes == IF filter_types # {} THEN typedNodes(g, filter_types) ELSE DOMAIN g.nodes
    IN  fromIds \cap fromTypes

\* variant: without the fallback that includes all nodes
nodesToInclude_NoDefault(g, filter_types, filter_node_ids, neighborhood_degree) ==
    LET fromIds == IF filter_node_ids # {}
                   THEN expandSeeds(g, filter_node_ids, neighborhood_degree) ELSE {}
        fromTypes == IF filter_types # {} THEN typedNodes(g, filter_types) ELSE {}
    IN  fromIds \cup fromTypes

nodesToInclude(g, filter_types, filter_node_ids, neighborhood_degree) ==
    LET fromIds == IF filter_node_ids # {}
                   THEN expandSeeds(g, filter_node_ids, neighborhood_degree) ELSE {}
        fromTypes == IF filter_types # {} THEN typedNodes(g, filter_types) ELSE {}
    IN  IF filter_node_ids = {} /\ filter_types = {}
        THEN DOMAIN g.nodes
        ELSE fromIds \cup fromTypes

\* for node in nodes_to_include: subgraph.add_node(node, **G.nodes[node])
RECURSIVE copyNodes(_, _, _)
copyNodes(sub, g, nodes) ==
    IF nodes = {} THEN sub
    ELSE LET n == CHOOSE x \in nodes : TRUE
         IN  copyNodes(add_node(sub, n, g.nodes[n]), g, nodes \ {n})

\* variant: the relation filter is not consulted
keepsEdge_AnyRelation(e, nodes_to_include, filter_relationships) ==
    /\ e.u \in nodes_to_include
    /\ e.v \in nodes_to_include

\* the condition under which the loop over G.edges(data=True) keeps an edge
keepsEdge(e, nodes_to_include, filter_relationships) ==
    /\ e.u \in nodes_to_include
    /\ e.v \in nodes_to_include
    /\ \/ filter_relationships = {}
       \/ get(e.data, "relation", None) \in filter_relationships

RECURSIVE copyEdges(_, _, _, _)
copyEdges(sub, edges, nodes_to_include, filter_relationships) ==
    IF edges = {} THEN sub
    ELSE LET e == CHOOSE x \in edges : TRUE
             sub1 == IF keepsEdge(e, nodes_to_include, filter_relationships)
                     THEN add_edge(sub, e.u, e.v, e.data)
                     ELSE sub
         IN  copyEdges(sub1, edges \ {e}, nodes_to_include, filter_relationships)

\* G.nodes[node] raises KeyError for a node that is not in G
raisesKeyError(g, nodes_to_include) == \E n \in nodes_to_include : ~has_node(g, n)

\* variant: the expansion follows only the edges the relation filter keeps
filteredSubgraph_FilteredHops(g, filter_types, filter_node_ids, filter_relationships, neighborhood_degree) ==
    LET kept == {e \in g.edges : \/ filter_relationships = {}
                                 \/ get(e.data, "relation", None) \in filter_relationships}
        nodes_to_include ==
            nodesToInclude([g EXCEPT !.edges = kept], filter_types, filter_node_ids,
                           neighborhood_degree)
    IN  IF raisesKeyError(g, nodes_to_include) THEN EmptyGraph
        ELSE copyEdges(copyNodes(EmptyGraph, g, nodes_to_include), g.edges,
                       nodes_to_include, filter_relationships)

filteredSubgraph(g, filter_types, filter_node_ids, filter_relationships, neighborhood_degree) ==
    LET nodes_to_include ==
            nodesToInclude(g, filter_types, filter_node_ids, neighborhood_degree)
    IN  IF raisesKeyError(g, nodes_to_include) THEN EmptyGraph
        ELSE copyEdges(copyNodes(EmptyGraph, g, nodes_to_include), g.edges,
                       nodes_to_include, filter_relationships)

hasFilter(filter_types, filter_node_ids, filter_relationships) ==
    filter_types # {} \/ filter_node_ids # {} \/ filter_relationships # {}

\* variant: the filtering is done in place on the input graph
create_pyvis_graph_InPlace(g, filter_types, filter_node_ids, filter_relationships, neighborhood_degree) ==
    LET sub == IF hasFilter(filter_types, filter_node_ids, filter_relationships)
               THEN filteredSubgraph(g, filter_types, filter_node_ids,
                                     filter_relationships, neighborhood_degree)
               ELSE g
    IN  [G |-> sub, subgraph |-> sub,
         raised |-> raisesKeyError(g, nodesToInclude(g, filter_types, filter_node_ids,
                                                     neighborhood_degree))]

\* The call as a whole: G is the input graph after the call, subgraph the
\* graph handed to the renderer, raised whether the call ended in an exception.
create_pyvis_graph(g, filter_types, filter_node_ids, filter_relationships, neighborhood_degree) ==
    IF hasFilter(filter_types, filter_node_ids, filter_relationships)
    THEN [G |-> g,
          subgraph |-> filteredSubgraph(g, filter_types, filter_node_ids,
                                        filter_relationships, neighborhood_degree),
          raised |-> raisesKeyError(g, nodesToInclude(g, filter_types, filter_node_ids,
                                                      neighborhood_degree))]
    ELSE [G |-> g, subgraph |-> g, raised |-> FALSE]

(***************************************************************************)
(* The entity inspector.                                                   *)
(***************************************************************************)
nodeType(g, n) == get(g.nodes[n], "type", None)

nodeLabel(g, n) == get(g.nodes[n], "label", n)

RECURSIVE sortBySequence(_)
sortBySequence(items) ==
    IF items = {} THEN <<>>
    ELSE LET m == CHOOSE x \in items : \A y \in items : x[2] <= y[2]
         IN  <<m>> \o sortBySequence(items \ {m})

create_path_view(g, path_id) ==
    IF ~has_node(g, path_id)
    THEN [G |-> g, found |-> FALSE, subgraph |-> None, raised |-> FALSE]
    ELSE LET path_concepts == {n \in successors(g, path_id) : nodeType(g, n) = "Concept"}
             r == create_pyvis_graph(g, {}, {path_id} \cup path_concepts, {}, 1)
         IN  [G |-> r.G, found |-> TRUE, subgraph |-> r.subgraph, raised |-> r.raised]

\* variant: the view is made without the test of the id
create_concept_view_Unguarded(g, concept_id) ==
    LET r == create_pyvis_graph(g, {}, {concept_id}, {}, 1)
    IN  [G |-> r.G, found |-> TRUE, subgraph |-> r.subgraph, raised |-> r.raised]

create_concept_view(g, concept_id) ==
    IF ~has_node(g, concept_id)
    THEN [G |-> g, found |-> FALSE, subgraph |-> None, raised |-> FALSE]
    ELSE LET r == create_pyvis_graph(g, {}, {concept_id}, {}, 1)
         IN  [G |-> r.G, found |-> TRUE, subgraph |-> r.subgraph, raised |-> r.raised]

\* the neighbours n of node_id on one side whose type and edge relation match
neighboursOf(g, node_id, direction, type, relation) ==
    {n \in adjacent(g, node_id, direction) :
        /\ nodeType(g, n) = type
        /\ LET data == IF direction = "successors" THEN edge_data(g, node_id, n)
                       ELSE edge_data(g, n, node_id)
           IN  get(data, "relation", None) = relation}

labelled(g, nodes) == {<<n, nodeLabel(g, n)>> : n \in nodes}

peers(g, node_id, direction) ==
    {<<n, get(IF direction = "successors" THEN edge_data(g, node_id, n)
              ELSE edge_data(g, n, node_id), "relation", "RELATED_TO"), nodeLabel(g, n)>> :
        n \in {m \in adjacent(g, node_id, direction) : nodeType(g, m) = "KnowledgeNode"}}

members(g, node_id, type, relation) ==
    sortBySequence({<<n, get(edge_data(g, node_id, n), "sequence", 0), nodeLabel(g, n)>> :
                       n \in neighboursOf(g, node_id, "successors", type, relation)})

display_node_details(g, node_id) ==
    IF ~has_node(g, node_id)
    THEN [G |-> g, found |-> FALSE, view |-> None]
    ELSE LET node_type == get(g.nodes[node_id], "type", "Unknown")
             view ==
               IF node_type = "KnowledgeNode"
               THEN [type |-> node_type,
                     containing_concepts |->
                         labelled(g, neighboursOf(g, node_id, "predecessors", "Concept", "CONTAINS")),
                     outgoing |-> peers(g, node_id, "successors"),
                     incoming |-> peers(g, node_id, "predecessors")]
               ELSE IF node_type = "Concept"
               THEN [type |-> node_type,
                     including_paths |->
                         labelled(g, neighboursOf(g, node_id, "predecessors", "LearningPath", "INCLUDES")),
                     prerequisites |->
                         labelled(g, neighboursOf(g, node_id, "predecessors", "Concept", "PREREQUISITE_FOR")),
                     dependents |->
                         labelled(g, neighboursOf(g, node_id, "successors", "Concept", "PREREQUISITE_FOR")),
                     contained_nodes |-> members(g, node_id, "KnowledgeNode", "CONTAINS")]
               ELSE IF node_type = "LearningPath"
               THEN [type |-> node_type,
                     key_competencies |-> get(g.nodes[node_id], "keyCompetencies", <<>>),
                     included_concepts |-> members(g, node_id, "Concept", "INCLUDES")]
               ELSE [type |-> node_type]
         IN  [G |-> g, found |-> TRUE, view |-> view]

(***************************************************************************)
(* Scripts.  A statement is the record of the groups its pattern captures. *)
(***************************************************************************)
CreateKnowledgeNode(id, title) ==
    [shape |-> "CreateKnowledgeNode", id |-> id, title |-> title, description |-> "d",
     difficulty |-> "Beginner", minutes |-> <<1, 0>>, source_lesson |-> "L1",
     source_title |-> "S1"]

CreateConcept(id, name) ==
    [shape |-> "CreateConcept", id |-> id, name |-> name, description |-> "d",
     minutes |-> <<3, 0>>]

CreateLearningPath(id, name, keyCompetencies) ==
    [shape |-> "CreateLearningPath", id |-> id, name |-> name, description |-> "d",
     targetAudience |-> "all", keyCompetencies |-> keyCompetencies, minutes |-> <<0, 9, 0>>]

NodeRelationship(source, target, rel_type, strength, justification) ==
    [shape |-> "NodeRelationship", source |-> source, target |-> target,
     rel_type |-> rel_type, strength |-> strength, justification |-> justification]

Contains(concept_id, node_id, sequence) ==
    [shape |-> "Contains", owner |-> concept_id, member |-> node_id, sequence |-> sequence]

Includes(path_id, concept_id, sequence) ==
    [shape |-> "Includes", owner |-> path_id, member |-> concept_id, sequence |-> sequence]

Prerequisite(prereq_id, concept_id) ==
    [shape |-> "Prerequisite", source |-> prereq_id, target |-> concept_id]

\* a statement that matches none of the patterns
Comment == [shape |-> "Unrecognized"]

AllCreations ==
    << CreateKnowledgeNode("N1", "Unit one"),
       CreateKnowledgeNode("N2", "Unit two"),
       CreateConcept("CONCEPT-1", "Topic one"),
       CreateConcept("CONCEPT-2", "Topic two"),
       CreateLearningPath("PATH-1", "Track", <<"a", ";", "b">>) >>

\* an id that no script creates
UnknownId == "N999"

EntityIds == {AllCreations[i].id : i \in 1..Len(AllCreations)}

\* the link statements the scripts of the selection runs are drawn from
SelectLinks ==
    << NodeRelationship("N1", "N2", "LEADS_TO", <<1>>, "j1"),
       NodeRelationship("N2", "N1", "REQUIRES", <<2>>, "j2"),
       NodeRelationship("N1", "N2", "CONTAINS", <<3>>, "j3"),
       Contains("CONCEPT-1", "N1", <<1>>),
       Contains("CONCEPT-1", "N2", <<0>>),
       Contains("CONCEPT-2", "N1", <<0>>),
       Includes("PATH-1", "CONCEPT-1", <<0>>),
       Prerequisite("CONCEPT-1", "CONCEPT-2") >>

\* the statements of universe at the chosen indices, in the order of universe
RECURSIVE pick(_, _, _)
pick(universe, chosen, i) ==
    IF i > Len(universe) THEN <<>>
    ELSE (IF i \in chosen THEN <<universe[i]>> ELSE <<>>) \o pick(universe, chosen, i + 1)

SelectScripts ==
    {AllCreations \o pick(SelectLinks, chosen, 1) :
        chosen \in {c \in SUBSET (1..Len(SelectLinks)) : Cardinality(c) <= MaxLinks}}

\* the link statements the scripts of the build runs are drawn from
BuildLinks ==
    << NodeRelationship("N1", "N2", "LEADS_TO", <<1>>, "j1"),
       NodeRelationship("N1", "N2", "LEADS_TO", <<2>>, "j2"),
       NodeRelationship("N1", "N2", "REQUIRES", <<3>>, "j3"),
       Contains("CONCEPT-1", "N1", <<1>>),
       Contains("CONCEPT-1", "N2", <<0>>),
       Contains("CONCEPT-1", "N2", <<0, 1>>),
       Includes("PATH-1", "CONCEPT-1", <<0>>),
       Prerequisite("CONCEPT-1", "CONCEPT-2"),
       Comment >>

\* all sequences of at most n statements of BuildLinks
RECURSIVE linkSequences(_)
linkSequences(n) ==
    IF n = 0 THEN {<<>>}
    ELSE LET shorter == linkSequences(n - 1)
         IN  shorter \cup {Append(l, BuildLinks[i]) : l \in shorter, i \in 1..Len(BuildLinks)}

\* the creation statements of a script: every entity; every entity but N2;
\* every entity but CONCEPT-1; every entity, N1 created a second time
CreationChoices ==
    { AllCreations,
      SelectSeq(AllCreations, LAMBDA c : c.id # "N2"),
      SelectSeq(AllCreations, LAMBDA c : c.id # "CONCEPT-1"),
      Append(AllCreations, CreateKnowledgeNode("N1", "Unit one, revised")) }

\* the creations before the links, or after them
BuildScripts ==
    {c \o l : c \in CreationChoices, l \in linkSequences(MaxBuildLinks)}
    \cup {l \o c : c \in CreationChoices, l \in linkSequences(MaxBuildLinks)}

TypeFilters ==
    {{}, {"KnowledgeNode"}, {"LearningPath", "Concept"}}

RelationFilters == {{}, {"LEADS_TO", "CONTAINS"}}

\* the ids the seeds are drawn from: nodes of each kind and an id that is no node
SeedIds == {"N1", "CONCEPT-1", "PATH-1", UnknownId}

SeedSets == {s \in SUBSET SeedIds : Cardinality(s) <= MaxSeeds}

NoValue == [op |-> "none"]

(***************************************************************************)
(* The run: the script is parsed, the graph is built, then the views       *)
(* query the graph, one call at a time.                                    *)
(***************************************************************************)
Init ==
    /\ script \in SelectScripts
    /\ graph_data = NoValue
    /\ G = EmptyGraph
    /\ pc = "start"
    /\ query = NoValue
    /\ result = NoValue
    /\ session_state = EmptyDict
    /\ tmp_files = EmptyDict
    /\ runs = <<>>

Parse ==
    /\ pc = "start"
    /\ graph_data' = parse_cypher_file(script)
    /\ pc' = "parsed"
    /\ UNCHANGED <<script, G, query, result, sessionVars>>

Build ==
    /\ pc = "parsed"
    /\ G' = build_networkx_graph(graph_data)
    /\ graph_data' = modelAfterBuild(graph_data)
    /\ pc' = "built"
    /\ UNCHANGED <<script, query, result, sessionVars>>

\* a second call of build_networkx_graph on the same parsed model
Rebuild ==
    /\ pc = "built"
    /\ query' = [op |-> "build"]
    /\ result' = [G |-> build_networkx_graph(graph_data)]
    /\ graph_data' = modelAfterBuild(graph_data)
    /\ pc' = "rebuilt"
    /\ UNCHANGED <<script, G, sessionVars>>

Select ==
    /\ pc = "built"
    /\ \E filter_types \in TypeFilters, filter_node_ids \in SeedSets,
          filter_relationships \in RelationFilters, neighborhood_degree \in 0..MaxHop :
          \E r \in {create_pyvis_graph(G, filter_types, filter_node_ids,
                                     filter_relationships, neighborhood_degree)} :
              /\ G' = r.G
              /\ query' = [op |-> "select", filter_types |-> filter_types,
                           filter_node_ids |-> filter_node_ids,
                           filter_relationships |-> filter_relationships,
                           neighborhood_degree |-> neighborhood_degree]
              /\ result' = [subgraph |-> r.subgraph, raised |-> r.raised]
    /\ pc' = "called"
    /\ UNCHANGED <<script, graph_data, sessionVars>>

PathView ==
    /\ pc = "built"
    /\ \E path_id \in EntityIds \cup {UnknownId} :
          \E r \in {create_path_view(G, path_id)} :
              /\ G' = r.G
              /\ query' = [op |-> "path_view", id |-> path_id]
              /\ result' = [found |-> r.found, subgraph |-> r.subgraph, raised |-> r.raised]
    /\ pc' = "called"
    /\ UNCHANGED <<script, graph_data, sessionVars>>

ConceptView ==
    /\ pc = "built"
    /\ \E concept_id \in EntityIds \cup {UnknownId} :
          \E r \in {create_concept_view(G, concept_id)} :
              /\ G' = r.G
              /\ query' = [op |-> "concept_view", id |-> concept_id]
              /\ result' = [found |-> r.found, subgraph |-> r.subgraph, raised |-> r.raised]
    /\ pc' = "called"
    /\ UNCHANGED <<script, graph_data, sessionVars>>

NodeDetails ==
    /\ pc = "built"
    /\ \E node_id \in EntityIds \cup {UnknownId} :
          \E r \in {display_node_details(G, node_id)} :
              /\ G' = r.G
              /\ query' = [op |-> "node_details", id |-> node_id]
              /\ result' = [found |-> r.found, view |-> r.view]
    /\ pc' = "called"
    /\ UNCHANGED <<script, graph_data, sessionVars>>

\* the call returns; the next view of the run queries the same graph
Return ==
    /\ pc = "called"
    /\ pc' = "built"
    /\ query' = NoValue
    /\ result' = NoValue
    /\ UNCHANGED <<script, graph_data, G, sessionVars>>

Next == Parse \/ Build \/ Select \/ PathView \/ ConceptView \/ NodeDetails \/ Return

Spec == Init /\ [][Next]_vars

TypeOK ==
    pc \in {"start", "parsed", "built", "called", "rebuilt", "idle", "info", "warning", "views", "error"}

(***************************************************************************)
(* The build alone, over scripts whose statements repeat and come in any   *)
(* order.                                                                  *)
(***************************************************************************)
InitBuild ==
    /\ script \in BuildScripts
    /\ graph_data = NoValue
    /\ G = EmptyGraph
    /\ pc = "start"
    /\ query = NoValue
    /\ result = NoValue
    /\ session_state = EmptyDict
    /\ tmp_files = EmptyDict
    /\ runs = <<>>

NextBuild == Parse \/ Build \/ Rebuild

SpecBuild == InitBuild /\ [][NextBuild]_vars

(***************************************************************************)
(* main: the runs of the page in one session.  Every run executes main     *)
(* from the top with the file the uploader holds; st.session_state lives   *)
(* from run to run.  The tabs read graph_data and G and write none of the  *)
(* three keys of the session state.                                        *)
(***************************************************************************)
\* what st.sidebar.file_uploader returns: None, or a file with its bytes
NoUpload == [kind |-> "none"]

Upload(text) == [kind |-> "file", encoding |-> "utf-8", text |-> text]

\* bytes that are no UTF-8 text
UndecodableUpload == [kind |-> "file", encoding |-> "invalid"]

UploadScripts ==
    {AllCreations \o SubSeq(SelectLinks, 1, 2),
     SubSeq(SelectLinks, 4, 5) \o AllCreations}

Uploads == {Upload(text) : text \in UploadScripts} \cup {UndecodableUpload, NoUpload}

\* the names tempfile.NamedTemporaryFile may give
TempNames == 1..MaxRuns

\* os.path.exists(cypher_path)
exists(files, path) == path \in DOMAIN files

\* with open(file_path, 'r', encoding='utf-8') as file: cypher_script = file.read()
read(files, file_path) ==
    IF ~exists(files, file_path) THEN [raised |-> TRUE]
    ELSE IF files[file_path].encoding # "utf-8" THEN [raised |-> TRUE]
    ELSE [raised |-> FALSE, text |-> files[file_path].text]

\* variant: the stored path is not compared with the path of the run
cacheTest_PresenceOnly(ss, cypher_path) ==
    IF "graph_data" \notin DOMAIN ss THEN "miss" ELSE "hit"

\* the test of the cache: 'graph_data' not in st.session_state or
\* st.session_state['cypher_path'] != cypher_path
cacheTest(ss, cypher_path) ==
    IF "graph_data" \notin DOMAIN ss THEN "miss"
    ELSE IF "cypher_path" \notin DOMAIN ss THEN "raise"
    ELSE IF ss["cypher_path"] # cypher_path THEN "miss"
    ELSE "hit"

\* variant: the path is stored before the file is parsed
loadGraph_PathFirst(ss, files, cypher_path) ==
    LET t == cacheTest(ss, cypher_path)
        ss0 == ("cypher_path" :> cypher_path) @@ ss
        r == read(files, cypher_path)
    IN  IF t = "raise"
        THEN [session_state |-> ss, raised |-> TRUE, text |-> <<>>,
              parse_calls |-> 0, build_calls |-> 0]
        ELSE IF t = "hit"
        THEN [session_state |-> ss, raised |-> FALSE, text |-> <<>>,
              parse_calls |-> 0, build_calls |-> 0]
        ELSE IF r.raised
        THEN [session_state |-> ss0, raised |-> TRUE, text |-> <<>>,
              parse_calls |-> 1, build_calls |-> 0]
        ELSE LET data == parse_cypher_file(r.text)
             IN  [session_state |->
                      ("graph" :> build_networkx_graph(data))
                      @@ ("graph_data" :> modelAfterBuild(data)) @@ ss0,
                  raised |-> FALSE, text |-> r.text,
                  parse_calls |-> 1, build_calls |-> 1]

\* the cache block of main: parse, build and store on a miss
loadGraph(ss, files, cypher_path) ==
    LET t == cacheTest(ss, cypher_path)
        r == read(files, cypher_path)
    IN  IF t = "raise"
        THEN [session_state |-> ss, raised |-> TRUE, text |-> <<>>,
              parse_calls |-> 0, build_calls |-> 0]
        ELSE IF t = "hit"
        THEN [session_state |-> ss, raised |-> FALSE, text |-> <<>>,
              parse_calls |-> 0, build_calls |-> 0]
        ELSE IF r.raised
        THEN [session_state |-> ss, raised |-> TRUE, text |-> <<>>,
              parse_calls |-> 1, build_calls |-> 0]
        ELSE LET data == parse_cypher_file(r.text)
                 ss1 == ("graph_data" :> data) @@ ss
                 ss2 == ("graph" :> build_networkx_graph(ss1["graph_data"]))
                        @@ ("graph_data" :> modelAfterBuild(ss1["graph_data"])) @@ ss1
                 ss3 == ("cypher_path" :> cypher_path) @@ ss2
             IN  [session_state |-> ss3, raised |-> FALSE, text |-> r.text,
                  parse_calls |-> 1, build_calls |-> 1]

\* one run of main without a file in the uploader
MainNoUpload ==
    /\ pc \in {"idle", "info", "warning", "views", "error"}
    /\ Len(runs) < MaxRuns
    /\ runs' = Append(runs, [uploaded |-> NoUpload, cypher_path |-> None, outcome |-> "info",
                             parse_calls |-> 0, build_calls |-> 0])
    /\ pc' = "info"
    /\ script' = <<>>
    /\ graph_data' = NoValue
    /\ G' = EmptyGraph
    /\ UNCHANGED <<query, result, session_state, tmp_files>>

\* one run of main with a file in the uploader
MainUpload ==
    /\ pc \in {"idle", "info", "warning", "views", "error"}
    /\ Len(runs) < MaxRuns
    /\ \E uploaded_file \in Uploads \ {NoUpload}, name \in TempNames \ DOMAIN tmp_files :
          LET files == (name :> uploaded_file) @@ tmp_files
              cypher_path == name
          IN  /\ tmp_files' = files
              /\ IF ~exists(files, cypher_path)
                 THEN /\ runs' = Append(runs, [uploaded |-> uploaded_file,
                                               cypher_path |-> cypher_path,
                                               outcome |-> "warning",
                                               parse_calls |-> 0, build_calls |-> 0])
                      /\ pc' = "warning"
                      /\ script' = <<>>
                      /\ graph_data' = NoValue
                      /\ G' = EmptyGraph
                      /\ UNCHANGED session_state
                 ELSE \E r \in {loadGraph(session_state, files, cypher_path)} :
                      /\ session_state' = r.session_state
                      /\ runs' = Append(runs, [uploaded |-> uploaded_file,
                                               cypher_path |-> cypher_path,
                                               outcome |-> IF r.raised THEN "error" ELSE "views",
                                               parse_calls |-> r.parse_calls,
                                               build_calls |-> r.build_calls])
                      /\ pc' = IF r.raised THEN "error" ELSE "views"
                      /\ script' = r.text
                      /\ graph_data' = IF r.raised THEN NoValue
                                       ELSE r.session_state["graph_data"]
                      /\ G' = IF r.raised THEN EmptyGraph ELSE r.session_state["graph"]
    /\ UNCHANGED <<query, result>>

InitMain ==
    /\ script = <<>>
    /\ graph_data = NoValue
    /\ G = EmptyGraph
    /\ pc = "idle"
    /\ query = NoValue
    /\ result = NoValue
    /\ session_state = EmptyDict
    /\ tmp_files = EmptyDict
    /\ runs = <<>>

NextMain == MainNoUpload \/ MainUpload

SpecMain == InitMain /\ [][NextMain]_vars

(***************************************************************************)
(* Vocabulary of the properties.                                           *)
(***************************************************************************)
Built == pc \in {"built", "called"}

Selected == pc = "called" /\ query.op = "select"

selectedNodes == DOMAIN result.subgraph.nodes

neighboursEitherWay(g, n) == successors(g, n) \cup predecessors(g, n)

\* strict frontier breadth-first search over the graph read as undirected
RECURSIVE frontierBFS(_, _, _, _)
frontierBFS(g, visited, frontier, depth) ==
    IF depth <= 0 \/ frontier = {} THEN visited
    ELSE LET next == (UNION {neighboursEitherWay(g, n) : n \in frontier}) \ visited
         IN  frontierBFS(g, visited \cup next, next, depth - 1)

strictBFS(g, seeds, depth) ==
    frontierBFS(g, seeds \cap DOMAIN g.nodes, seeds \cap DOMAIN g.nodes, depth)

\* n is at most hops edges away from s, each edge taken in either direction
RECURSIVE withinHops(_, _, _, _)
withinHops(g, s, n, hops) ==
    \/ s = n
    \/ /\ hops > 0
       /\ \E m \in neighboursEitherWay(g, s) : withinHops(g, m, n, hops - 1)

relationOf(e) == get(e.data, "relation", None)

\* C1: with seeds and no type filter, the selected node set is the node set
\* of a strict frontier breadth-first search of depth k from the seeds over
\* the graph read as undirected.
C1_SelectionIsStrictBFS ==
    (Selected /\ query.filter_node_ids # {} /\ query.filter_types = {})
        => selectedNodes = strictBFS(G, query.filter_node_ids, query.neighborhood_degree)

\* C2: for k > 0 the selected node set contains every node within k hops of
\* a seed, each hop following an edge in either direction.
C2_SelectionCoversEitherWayHops ==
    (Selected /\ query.filter_node_ids # {} /\ query.neighborhood_degree > 0)
        => \A s \in query.filter_node_ids \cap DOMAIN G.nodes : \A n \in DOMAIN G.nodes :
              withinHops(G, s, n, query.neighborhood_degree) => n \in selectedNodes

\* the node set the selector returns for the query of the state, at radius r
nodesAtRadius(r) ==
    DOMAIN create_pyvis_graph(G, query.filter_types, query.filter_node_ids,
                              query.filter_relationships, r).subgraph.nodes

\* C3: the selected node set grows with the hop radius: the node set for
\* any smaller radius, same seeds and filters, is a subset of the selected one.
C3_MonotoneInRadius ==
    Selected => \A r1 \in 0..query.neighborhood_degree : nodesAtRadius(r1) \subseteq selectedNodes

C3_Witness ==
    /\ Selected
    /\ query.neighborhood_degree = 2
    /\ query.filter_node_ids # {}
    /\ nodesAtRadius(0) # nodesAtRadius(1)
    /\ nodesAtRadius(1) # selectedNodes

\* C4: an edge of the input graph is in the returned graph exactly when both
\* endpoints are selected and the relation filter is absent or holds the
\* edge's relation; the returned graph has no other edge.
C4_EdgeSelection ==
    Selected =>
        /\ result.subgraph.edges \subseteq G.edges
        /\ \A e \in G.edges :
              e \in result.subgraph.edges
                <=> /\ e.u \in selectedNodes
                    /\ e.v \in selectedNodes
                    /\ \/ query.filter_relationships = {}
                       \/ relationOf(e) \in query.filter_relationships

C4_Witness ==
    /\ Selected
    /\ query.filter_relationships # {}
    /\ \E e \in G.edges : e \in result.subgraph.edges
    /\ \E e \in G.edges : /\ e.u \in selectedNodes /\ e.v \in selectedNodes
                          /\ e \notin result.subgraph.edges
    /\ \E e \in G.edges : e.u \notin selectedNodes \/ e.v \notin selectedNodes

nodesOfType(g, types) == {n \in DOMAIN g.nodes : g.nodes[n].type \in types}

\* the node set the selector returns for the seeds and radius of the state
\* when no type filter is given
nodesWithoutTypeFilter ==
    DOMAIN create_pyvis_graph(G, {}, query.filter_node_ids, query.filter_relationships,
                              query.neighborhood_degree).subgraph.nodes

OnlyKnowledgeNodes ==
    /\ Selected
    /\ query.filter_types = {"KnowledgeNode"}
    /\ query.filter_node_ids = {}
    /\ query.filter_relationships = {}

C5_TypeFilterUnion ==
    (Selected /\ query.filter_types # {}) =>
        selectedNodes =
            (IF query.filter_node_ids = {} THEN {} ELSE nodesWithoutTypeFilter)
            \cup nodesOfType(G, query.filter_types)

C5_KnowledgeNodesInduced ==
    OnlyKnowledgeNodes =>
        /\ selectedNodes = nodesOfType(G, {"KnowledgeNode"})
        /\ result.subgraph.edges =
              {e \in G.edges : {e.u, e.v} \subseteq nodesOfType(G, {"KnowledgeNode"})}

\* C5 as stated: with a type filter the selected nodes are the seed/hop
\* expansion united with the nodes of the filtered kinds; type filter
\* {KnowledgeNode} alone returns the KnowledgeNodes, the edges among them,
\* and no edge whose relation is CONTAINS or INCLUDES.
C5_Original ==
    /\ C5_TypeFilterUnion
    /\ C5_KnowledgeNodesInduced
    /\ OnlyKnowledgeNodes =>
          \A e \in result.subgraph.edges : relationOf(e) \notin {"CONTAINS", "INCLUDES"}

\* C5 (amended): with a type filter the selected nodes are the seed/hop
\* expansion united with the nodes of the filtered kinds; type filter
\* {KnowledgeNode} alone returns the KnowledgeNodes, the edges among them,
\* and no edge that starts or ends at a Concept or a LearningPath.
C5_TypeFilter ==
    /\ C5_TypeFilterUnion
    /\ C5_KnowledgeNodesInduced
    /\ OnlyKnowledgeNodes =>
          \A e \in result.subgraph.edges :
              {e.u, e.v} \cap nodesOfType(G, {"Concept", "LearningPath"}) = {}

C5_Witness ==
    /\ OnlyKnowledgeNodes
    /\ result.subgraph.edges # {}
    /\ \E e \in G.edges : relationOf(e) = "CONTAINS" /\ e \notin result.subgraph.edges
    /\ selectedNodes # DOMAIN G.nodes

\* C6: without seeds and without a type filter every node of the graph is
\* selected, and the edges are those that pass the relation filter.
C6_NoNodeFilterSelectsAll ==
    (Selected /\ query.filter_node_ids = {} /\ query.filter_types = {}) =>
        /\ result.subgraph.nodes = G.nodes
        /\ result.subgraph.edges =
              {e \in G.edges : \/ query.filter_relationships = {}
                               \/ relationOf(e) \in query.filter_relationships}

C6_Witness ==
    /\ Selected
    /\ query.filter_node_ids = {}
    /\ query.filter_types = {}
    /\ query.filter_relationships # {}
    /\ result.subgraph.edges # {}
    /\ result.subgraph.edges # G.edges

\* what the selector returns for the query of the state with seeds instead
resultForSeeds(seeds) ==
    create_pyvis_graph(G, query.filter_types, seeds, query.filter_relationships,
                       query.neighborhood_degree)

\* C7: a seed that is not a node raises no error, is not in the result, and
\* leaves the result what it is without that seed as long as a seed
\* remains; seeds that are all unknown select nothing without a type filter.
C7_UnknownSeedIgnored ==
    Selected =>
        /\ ~result.raised
        /\ \A u \in query.filter_node_ids \ DOMAIN G.nodes :
              /\ u \notin selectedNodes
              /\ query.filter_node_ids \ {u} # {}
                    => result.subgraph = resultForSeeds(query.filter_node_ids \ {u}).subgraph
        /\ (/\ query.filter_node_ids # {}
            /\ query.filter_node_ids \cap DOMAIN G.nodes = {}
            /\ query.filter_types = {}) => selectedNodes = {}

C7_Witness ==
    /\ Selected
    /\ UnknownId \in query.filter_node_ids
    /\ query.filter_node_ids \cap DOMAIN G.nodes # {}
    /\ query.neighborhood_degree > 0
    /\ Cardinality(selectedNodes) > 1

\* C8: no call of the selector or of the inspector changes the graph: its
\* nodes, its edges and all their attributes stay what they were.
C8_GraphNeverMutated == [][Built => G' = G]_vars

C8_Witness ==
    /\ Selected
    /\ G.edges # {}
    /\ result.subgraph.nodes # <<>>
    /\ result.subgraph # G

sameTriple(r1, r2) ==
    r1.source = r2.source /\ r1.target = r2.target /\ r1.type = r2.type

carries(e, rel) ==
    /\ e.u = rel.source
    /\ e.v = rel.target
    /\ relationOf(e) = rel.type
    /\ get(e.data, "strength", None) = rel.strength
    /\ get(e.data, "justification", None) = rel.justification

\* C9: every relationship of the parsed list whose endpoints are nodes has
\* its edge source -> target with the relationship's kind, strength and
\* justification, also when relationships of several kinds link one pair.
C9_EveryRelationshipHasItsEdge ==
    Built => \A i \in 1..Len(graph_data.relationships) :
                LET rel == graph_data.relationships[i]
                IN  (has_node(G, rel.source) /\ has_node(G, rel.target))
                        => \E e \in G.edges : carries(e, rel)

\* C10: the graph has at most one edge per (source, target, kind), and
\* where several statements share such a triple its edge carries the
\* strength and justification of the last of them in list order.
C10_LastWriteWinsPerTriple ==
    Built =>
        /\ \A e1, e2 \in G.edges :
              (e1.u = e2.u /\ e1.v = e2.v /\ relationOf(e1) = relationOf(e2)) => e1 = e2
        /\ \A i, j \in 1..Len(graph_data.relationships) :
              LET rels == graph_data.relationships
              IN  (/\ i < j
                   /\ sameTriple(rels[i], rels[j])
                   /\ \A k \in (j + 1)..Len(rels) : ~sameTriple(rels[k], rels[j])
                   /\ has_node(G, rels[j].source)
                   /\ has_node(G, rels[j].target))
                      => \E e \in G.edges : carries(e, rels[j])

\* the ids of the entities the script creates
createdIds ==
    {script[i].id : i \in {j \in 1..Len(script) :
        script[j].shape \in {"CreateKnowledgeNode", "CreateConcept", "CreateLearningPath"}}}

\* the relationship statements of the script, in text order
relationshipStatements ==
    SelectSeq(script, LAMBDA s : s.shape \in {"NodeRelationship", "Prerequisite"})

dangling(rel) == rel.source \notin createdIds \/ rel.target \notin createdIds

\* C11: a relationship with an endpoint that is no created entity gives no
\* edge and no node, while the parsed relationship list still holds it: the
\* list is as long as the script has relationship statements.
C11_DanglingRelationshipDropped ==
    Built =>
        /\ Len(graph_data.relationships) = Len(relationshipStatements)
        /\ DOMAIN G.nodes = createdIds
        /\ \A i \in 1..Len(relationshipStatements) :
              LET st == relationshipStatements[i]
              IN  dangling(st) =>
                    /\ ~has_edge(G, st.source, st.target)
                    /\ \E j \in 1..Len(graph_data.relationships) :
                          /\ graph_data.relationships[j].source = st.source
                          /\ graph_data.relationships[j].target = st.target

C11_Witness ==
    /\ pc = "built"
    /\ \E i \in 1..Len(graph_data.relationships) : dangling(graph_data.relationships[i])
    /\ G.edges # {}

\* the CONTAINS (INCLUDES) statements of one owner, in text order
memberStatements(shape, owner) ==
    SelectSeq(script, LAMBDA s : s.shape = shape /\ s.owner = owner)

\* the 1-based rank of statement i among the statements: ascending by the
\* declared number, statements of equal number in text order
rank(stmts, i) ==
    1 + Cardinality({j \in 1..Len(stmts) :
            \/ int(stmts[j].sequence) < int(stmts[i].sequence)
            \/ int(stmts[j].sequence) = int(stmts[i].sequence) /\ j < i})

rankedMembers(stmts) ==
    [k \in 1..Len(stmts) |-> stmts[CHOOSE i \in 1..Len(stmts) : rank(stmts, i) = k].member]

\* the largest rank of a statement naming the member
lastRank(stmts, member) ==
    CHOOSE r \in 1..Len(stmts) :
        /\ \E i \in 1..Len(stmts) : stmts[i].member = member /\ rank(stmts, i) = r
        /\ \A i \in 1..Len(stmts) : stmts[i].member = member => rank(stmts, i) <= r

sequenceDerived(entities, shape, key) ==
    \A owner \in DOMAIN entities :
        LET stmts == memberStatements(shape, owner)
        IN  stmts # <<>> =>
              /\ key \in DOMAIN entities[owner]
              /\ entities[owner][key] = rankedMembers(stmts)
              /\ G.nodes[owner][key] = rankedMembers(stmts)

\* every statement has an edge of the kind that carries the statement's rank
edgePerStatement(entities, shape, relation) ==
    \A owner \in DOMAIN entities :
        LET stmts == memberStatements(shape, owner)
        IN  \A i \in 1..Len(stmts) :
              \E e \in G.edges :
                  /\ e.u = owner /\ e.v = stmts[i].member
                  /\ e.data = [relation |-> relation, sequence |-> rank(stmts, i)]

\* every member that is a node has exactly one edge, which carries the rank of
\* the member's last place in the sorted list; a member that is no node has none
edgePerNodeMember(entities, shape, relation) ==
    \A owner \in DOMAIN entities :
        LET stmts == memberStatements(shape, owner)
            named == {stmts[i].member : i \in 1..Len(stmts)}
        IN  /\ \A m \in named \cap DOMAIN G.nodes :
                  {e \in G.edges : e.u = owner /\ e.v = m}
                    = {[u |-> owner, v |-> m,
                        data |-> [relation |-> relation,
                                  sequence |-> lastRank(stmts, m)]]}
            /\ \A m \in named \ DOMAIN G.nodes : ~has_edge(G, owner, m)
            /\ \A e \in G.edges :
                  e.u = owner /\ relationOf(e) = relation => e.v \in named

\* C12 as stated: the derived sequence of every created Concept (LearningPath)
\* is its statement members sorted ascending by declared number, ties in text
\* order, and every member has a CONTAINS (INCLUDES) edge that carries the
\* member's 1-based rank in the sorted list.
C12_Original ==
    Built =>
        /\ sequenceDerived(graph_data.concepts, "Contains", "sequence")
        /\ sequenceDerived(graph_data.learning_paths, "Includes", "conceptSequence")
        /\ edgePerStatement(graph_data.concepts, "Contains", "CONTAINS")
        /\ edgePerStatement(graph_data.learning_paths, "Includes", "INCLUDES")

\* C12, amended: the derived sequence is as stated; the graph has exactly one
\* CONTAINS (INCLUDES) edge per distinct member that is a node, carrying the
\* 1-based rank of the member's last place in the sorted list, and no edge
\* for a member that is no node.
C12_SequenceDerivation ==
    Built =>
        /\ sequenceDerived(graph_data.concepts, "Contains", "sequence")
        /\ sequenceDerived(graph_data.learning_paths, "Includes", "conceptSequence")
        /\ edgePerNodeMember(graph_data.concepts, "Contains", "CONTAINS")
        /\ edgePerNodeMember(graph_data.learning_paths, "Includes", "INCLUDES")

\* three statements of one concept, out of order and with a tie
C12_Witness ==
    /\ pc = "built"
    /\ "CONCEPT-1" \in DOMAIN graph_data.concepts
    /\ LET stmts == memberStatements("Contains", "CONCEPT-1")
       IN  /\ Len(stmts) = 3
           /\ \E i, j \in 1..3 : i < j /\ rank(stmts, j) < rank(stmts, i)
           /\ \E i, j \in 1..3 :
                 /\ i # j /\ stmts[i].sequence # stmts[j].sequence
                 /\ int(stmts[i].sequence) = int(stmts[j].sequence)
           /\ has_edge(G, "CONCEPT-1", "N1")

Parsed == pc # "start"

orderings(n) ==
    {p \in [1..n -> 1..n] : \A i, j \in 1..n : i # j => p[i] # p[j]}

\* the array lists the members of the statements, one position per statement,
\* and the declared numbers increase from each position to the next
increasingArray(array, stmts, strictly) ==
    /\ Len(array) = Len(stmts)
    /\ \E p \in orderings(Len(stmts)) :
          /\ \A k \in 1..Len(stmts) : array[k] = stmts[p[k]].member
          /\ \A k \in 1..(Len(stmts) - 1) :
                LET a == int(stmts[p[k]].sequence)
                    b == int(stmts[p[k + 1]].sequence)
                IN  IF strictly THEN a < b ELSE a <= b

increasingArrays(entities, shape, key, strictly) ==
    \A owner \in DOMAIN entities :
        key \in DOMAIN entities[owner] =>
            increasingArray(entities[owner][key], memberStatements(shape, owner), strictly)

distinctNumbers(stmts) ==
    \A i, j \in 1..Len(stmts) :
        i # j => int(stmts[i].sequence) # int(stmts[j].sequence)

\* C13 as stated: in every parsed model the declared sequence numbers of the
\* members of a sequence (conceptSequence) array strictly increase from one
\* position to the next.
C13_Original ==
    Parsed =>
        /\ increasingArrays(graph_data.concepts, "Contains", "sequence", TRUE)
        /\ increasingArrays(graph_data.learning_paths, "Includes", "conceptSequence", TRUE)

\* C13, amended: the declared numbers never decrease from one position to the
\* next, and strictly increase when the owner's statements declare pairwise
\* distinct numbers.
C13_SequenceNonDecreasing ==
    Parsed =>
        /\ increasingArrays(graph_data.concepts, "Contains", "sequence", FALSE)
        /\ increasingArrays(graph_data.learning_paths, "Includes", "conceptSequence", FALSE)
        /\ \A owner \in DOMAIN graph_data.concepts :
              LET stmts == memberStatements("Contains", owner)
              IN  stmts # <<>> /\ distinctNumbers(stmts) =>
                     increasingArray(graph_data.concepts[owner]["sequence"], stmts, TRUE)

\* a parsed concept whose statements come out of order and declare one number twice
C13_Witness ==
    /\ pc = "parsed"
    /\ "CONCEPT-1" \in DOMAIN graph_data.concepts
    /\ LET stmts == memberStatements("Contains", "CONCEPT-1")
       IN  /\ Len(stmts) >= 2
           /\ ~distinctNumbers(stmts)
           /\ graph_data.concepts["CONCEPT-1"]["sequence"] # [i \in 1..Len(stmts) |-> stmts[i].member]

lastRun == runs[Len(runs)]

\* C15: a run of main whose upload is the script of the run before, which
\* reached the tabs, calls neither parse_cypher_file nor build_networkx_graph.
C15_ParsedOncePerUpload ==
    \A i \in 2..Len(runs) :
        /\ runs[i].uploaded = runs[i - 1].uploaded
        /\ runs[i - 1].outcome = "views"
        => runs[i].parse_calls = 0 /\ runs[i].build_calls = 0

\* C18: a run whose upload cannot be read ends in the error outcome after one
\* call of the parse and no build, shows no parsed model and no graph, and
\* leaves the session state as it was before the run.
C18_UnreadableScriptLeavesSession ==
    [][(runs' # runs /\ runs'[Len(runs')].uploaded = UndecodableUpload)
        => /\ session_state' = session_state
           /\ pc' = "error"
           /\ runs'[Len(runs')].parse_calls = 1
           /\ runs'[Len(runs')].build_calls = 0
           /\ graph_data' = NoValue
           /\ G' = EmptyGraph]_vars

\* an unreadable upload after a run that cached a graph
C18_Witness ==
    /\ Len(runs) >= 2
    /\ lastRun.uploaded = UndecodableUpload
    /\ pc = "error"
    /\ runs[Len(runs) - 1].outcome = "views"
    /\ "graph" \in DOMAIN session_state
    /\ session_state["cypher_path"] = runs[Len(runs) - 1].cypher_path

\* a step that calls one of the three inspecting functions
Inspecting ==
    /\ pc = "built"
    /\ pc' = "called"
    /\ query'.op \in {"node_details", "path_view", "concept_view"}

\* the lists of a node's details that are filled from one side of the node
listsFrom(view, direction) ==
    IF view.type = "KnowledgeNode"
    THEN IF direction = "predecessors"
         THEN view.containing_concepts = {} /\ view.incoming = {}
         ELSE view.outgoing = {}
    ELSE IF view.type = "Concept"
    THEN IF direction = "predecessors"
         THEN view.including_paths = {} /\ view.prerequisites = {}
         ELSE view.dependents = {} /\ view.contained_nodes = <<>>
    ELSE IF view.type = "LearningPath"
    THEN direction = "successors" => view.included_concepts = <<>>
    ELSE TRUE

\* C16: inspecting an id that is no node of the graph gives the not-found
\* outcome, a None result, no exception and the graph as it was; inspecting a
\* node gives its details or view, with empty lists for the side on which the
\* node has no neighbour.
C16_InspectorNotFound ==
    [][Inspecting =>
        /\ G' = G
        /\ IF ~has_node(G, query'.id)
           THEN /\ ~result'.found
                /\ IF query'.op = "node_details" THEN result'.view = None
                   ELSE result'.subgraph = None /\ ~result'.raised
           ELSE /\ result'.found
                /\ IF query'.op = "node_details"
                   THEN /\ result'.view.type = nodeType(G, query'.id)
                        /\ predecessors(G, query'.id) = {}
                              => listsFrom(result'.view, "predecessors")
                        /\ successors(G, query'.id) = {}
                              => listsFrom(result'.view, "successors")
                   ELSE /\ ~result'.raised
                        /\ query'.id \in DOMAIN result'.subgraph.nodes]_vars

\* the concept view asked for an id that is no node of a graph with edges
C16_Witness ==
    /\ pc = "called"
    /\ query.op = "concept_view"
    /\ query.id = UnknownId
    /\ ~result.found
    /\ result.subgraph = None
    /\ G.edges # {}

creates(s) == s.shape \in {"CreateKnowledgeNode", "CreateConcept", "CreateLearningPath"}

creationsOf(cypher_script) == SelectSeq(cypher_script, creates)

othersOf(cypher_script) == SelectSeq(cypher_script, LAMBDA s : ~creates(s))

\* the statements of a script with every creation before every other statement,
\* with every creation after them, and with the two kinds taking turns; each
\* keeps the order of the creations and the order of the other statements
creationsFirst(cypher_script) == creationsOf(cypher_script) \o othersOf(cypher_script)

creationsLast(cypher_script) == othersOf(cypher_script) \o creationsOf(cypher_script)

RECURSIVE weave(_, _)
weave(a, b) ==
    IF a = <<>> THEN b
    ELSE IF b = <<>> THEN a
    ELSE <<Head(a), Head(b)>> \o weave(Tail(a), Tail(b))

takingTurns(cypher_script) == weave(creationsOf(cypher_script), othersOf(cypher_script))

reorderings(cypher_script) ==
    {creationsFirst(cypher_script), creationsLast(cypher_script), takingTurns(cypher_script)}

\* C17: a script and each of its reorderings that move the relationship and
\* structural statements before, after or between the creation statements
\* give the same parsed model and the same built graph.
C17_ParseOrderIndependent ==
    /\ pc = "parsed" =>
          \A other \in reorderings(script) : parse_cypher_file(other) = graph_data
    /\ pc = "built" =>
          \A other \in reorderings(script) :
              build_networkx_graph(parse_cypher_file(other)) = G

\* a script whose structural statements come before every creation and whose
\* graph has their edges
C17_Witness ==
    /\ pc = "built"
    /\ script # <<>>
    /\ script[1].shape = "Contains"
    /\ creates(script[Len(script)])
    /\ creationsFirst(script) # script
    /\ \E e \in G.edges : relationOf(e) = "CONTAINS"

\* the nodes at the far end of 1..steps edges that start in sources, every
\* edge taken forwards (from u to v) or every edge taken backwards
RECURSIVE stepsFrom(_, _, _, _)
stepsFrom(g, sources, forwards, steps) ==
    IF steps = 0 THEN {}
    ELSE LET one == IF forwards THEN {e.v : e \in {d \in g.edges : d.u \in sources}}
                    ELSE {e.u : e \in {d \in g.edges : d.v \in sources}}
         IN  one \cup stepsFrom(g, one, forwards, steps - 1)

forwardSet(g, s, k) == stepsFrom(g, {s}, TRUE, k)

backwardSet(g, s, k) == stepsFrom(g, forwardSet(g, s, k) \cup {s}, FALSE, k)

OtherRelationFilters == RelationFilters \cup {{"REQUIRES"}}

\* C20: the selected node set is the same for every relation filter, none
\* included, and with a radius above 0 the nodes next to a seed are selected
\* whatever the relation of the edge that joins them.
C20_RelationFilterKeepsNodes ==
    Selected =>
        /\ \A filter_relationships \in OtherRelationFilters :
              DOMAIN create_pyvis_graph(G, query.filter_types, query.filter_node_ids,
                                        filter_relationships,
                                        query.neighborhood_degree).subgraph.nodes
                = selectedNodes
        /\ query.neighborhood_degree > 0 =>
              \A e \in G.edges :
                  /\ e.u \in query.filter_node_ids => e.v \in selectedNodes
                  /\ e.v \in query.filter_node_ids => e.u \in selectedNodes

\* a node reached from the seed over an edge that the relation filter leaves out
C20_Witness ==
    /\ Selected
    /\ query.filter_relationships # {}
    /\ query.filter_types = {}
    /\ query.neighborhood_degree > 0
    /\ \E e \in G.edges :
          /\ e.u \in query.filter_node_ids
          /\ e.v \in selectedNodes \ query.filter_node_ids
          /\ relationOf(e) \notin query.filter_relationships
          /\ e \notin result.subgraph.edges
          /\ ~has_edge(G, e.v, e.u)

\* what parsing and building the text of an upload gives
graphOfUpload(uploaded_file) == build_networkx_graph(parse_cypher_file(uploaded_file.text))

createdBy(shape) ==
    {script[i].id : i \in {j \in 1..Len(script) : script[j].shape = shape}}

\* the ids the statements of the script name, by the form the patterns give them
ConceptIds == {"CONCEPT-1", "CONCEPT-2"}

UnitIds == {"N1", "N2", UnknownId}

PathIds == {"PATH-1"}

linked(shape, owner, member) ==
    \E i \in 1..Len(script) :
        /\ script[i].shape = shape
        /\ script[i].owner = owner
        /\ script[i].member = member

edgeOfKind(owner, member, relation) ==
    \E e \in G.edges : e.u = owner /\ e.v = member /\ relationOf(e) = relation

\* the script without the CONTAINS statements whose concept is not created
withoutOrphans ==
    SelectSeq(script, LAMBDA s :
        ~(s.shape = "Contains" /\ s.owner \notin createdBy("CreateConcept")))

\* C22: the graph has a CONTAINS edge from concept C to unit N exactly when C
\* is a created Concept, N a created KnowledgeNode and a CONTAINS statement
\* links them (INCLUDES likewise for paths and concepts); a statement naming
\* an uncreated unit adds neither edge nor node while the unit id stays in
\* the concept's sequence attribute, and the statements naming an uncreated
\* concept leave the graph what it is without them.
C22_StructuralEdges ==
    Built =>
        /\ \A C \in ConceptIds, N \in UnitIds :
              edgeOfKind(C, N, "CONTAINS")
                <=> /\ C \in createdBy("CreateConcept")
                    /\ N \in createdBy("CreateKnowledgeNode")
                    /\ linked("Contains", C, N)
        /\ \A P \in PathIds, C \in ConceptIds :
              edgeOfKind(P, C, "INCLUDES")
                <=> /\ P \in createdBy("CreateLearningPath")
                    /\ C \in createdBy("CreateConcept")
                    /\ linked("Includes", P, C)
        /\ \A C \in ConceptIds \cap createdBy("CreateConcept"),
              N \in UnitIds \ createdBy("CreateKnowledgeNode") :
              linked("Contains", C, N) =>
                  /\ ~has_node(G, N)
                  /\ ~has_edge(G, C, N)
                  /\ InList(N, G.nodes[C]["sequence"])
        /\ build_networkx_graph(parse_cypher_file(withoutOrphans)) = G

\* a created concept whose sequence names a unit that is no node, in a script
\* that also has a statement of an uncreated concept
C22_Witness ==
    /\ pc = "built"
    /\ "CONCEPT-1" \in createdBy("CreateConcept")
    /\ "N2" \notin createdBy("CreateKnowledgeNode")
    /\ linked("Contains", "CONCEPT-1", "N2")
    /\ linked("Contains", "CONCEPT-1", "N1")
    /\ edgeOfKind("CONCEPT-1", "N1", "CONTAINS")
    /\ InList("N2", G.nodes["CONCEPT-1"]["sequence"])

\* statements of an uncreated concept in a script whose graph has edges
C22_WitnessOrphan ==
    /\ pc = "built"
    /\ withoutOrphans # script
    /\ G.edges # {}

====
